---- MODULE Spec2Model ----
(***************************************************************************)
(* Word frequency counter of Lab1/main.py: the text is tokenized and split *)
(* into num_segments segments, one worker process per segment counts its   *)
(* words into a manager dict and sets its flag in a manager list, the      *)
(* coordinator polls the flags, joins the workers, merges the partial      *)
(* counters and writes the ranking to output.txt.                          *)
(*                                                                         *)
(* A text is a sequence of code points, Space being the one whitespace     *)
(* code point; a word is a non-empty sequence of letters.  A Counter is    *)
(* the sequence of its <<word, count>> items in insertion order, as a      *)
(* Python dict keeps them.                                                 *)
(***************************************************************************)
EXTENDS Integers, Sequences, FiniteSets, TLC

\* Bounds of the inputs of the whole pipeline: the words of the text and the
\* segment count, which also bounds the number of worker processes.
MaxWords == 3
MaxN == 2
\* Bound of the words of the text in the runs checked under fair scheduling.
MaxFairWords == 2
\* Bounds of the inputs on which split_text is checked alone.
MaxSplitTextLen == 9
MaxSplitN == 3

\* The whitespace code point; every other code point is a letter.
Space == 0

Letters == {1, 2}
Alphabet == {Space} \cup Letters

\* The texts split_text is checked on: every sequence of code points.
SplitTexts == UNION {[1..n -> Alphabet] : n \in 0..MaxSplitTextLen}
SplitSegmentCounts == (0 - MaxSplitN)..MaxSplitN

\* The texts the pipeline is run on: words of a small vocabulary, one of them
\* a prefix of another, with a space between two words.
Vocabulary == {<<1>>, <<1, 2>>, <<2>>}

RECURSIVE JoinWords(_)
JoinWords(ws) ==
    IF ws = <<>> THEN <<>>
    ELSE IF Len(ws) = 1 THEN ws[1]
    ELSE ws[1] \o <<Space>> \o JoinWords(Tail(ws))

Texts == {JoinWords(ws) : ws \in UNION {[1..n -> Vocabulary] : n \in 0..MaxWords}}
FairTexts == {JoinWords(ws) : ws \in UNION {[1..n -> Vocabulary] : n \in 0..MaxFairWords}}
SegmentCounts == (0 - MaxN)..MaxN

VARIABLES
    text,           \* main: the contents of the input file
    num_segments,   \* main: int(sys.argv[2])
    pc,             \* main: where the coordinator is
    segments,       \* main: the result of split_text
    wpc,            \* where each worker process is
    result_dict,    \* manager.dict(): <<index, counter>> items in insertion order
    progress_list,  \* manager.list([0] * num_segments)
    spawned,        \* main: number of processes started (loop at 106-109)
    obs_k,          \* show_progress: next index sum() reads
    obs_acc,        \* show_progress: partial sum of sum()
    previous_done,  \* show_progress: previous_done
    joined,         \* main: number of processes joined (loop at 115-116)
    final_count,    \* main: final_count
    ranked,         \* main: the sorted() list of line 126
    output          \* output.txt as it is on disk

vars == <<text, num_segments, pc, segments, wpc, result_dict, progress_list,
          spawned, obs_k, obs_acc, previous_done, joined, final_count, ranked,
          output>>

Min(a, b) == IF a < b THEN a ELSE b
Max(a, b) == IF a > b THEN a ELSE b

(***************************************************************************)
(* str.split(): the maximal runs of non-whitespace, in order.              *)
(***************************************************************************)
RECURSIVE SplitFrom(_, _, _, _)
SplitFrom(s, i, cur, acc) ==
    IF i > Len(s)
    THEN IF cur = <<>> THEN acc ELSE Append(acc, cur)
    ELSE IF s[i] = Space
         THEN SplitFrom(s, i + 1, <<>>, IF cur = <<>> THEN acc ELSE Append(acc, cur))
         ELSE SplitFrom(s, i + 1, Append(cur, s[i]), acc)

Split(s) == SplitFrom(s, 1, <<>>, <<>>)

(***************************************************************************)
(* Python's floor division, for a non-zero divisor.                        *)
(***************************************************************************)
FloorDiv(a, b) ==
    IF b > 0 THEN a \div b
    ELSE IF a >= 0 THEN 0 - (((a + (0 - b)) - 1) \div (0 - b))
    ELSE (0 - a) \div (0 - b)

(***************************************************************************)
(* Python's s[start:end]; endOpt is <<>> for None and <<e>> for e.         *)
(***************************************************************************)
SliceIndex(idx, n) == IF idx < 0 THEN Max(n + idx, 0) ELSE Min(idx, n)

PySlice(s, start, endOpt) ==
    LET n  == Len(s)
        lo == SliceIndex(start, n)
        hi == IF endOpt = <<>> THEN n ELSE SliceIndex(endOpt[1], n)
    IN  IF lo >= hi THEN <<>> ELSE SubSeq(s, lo + 1, hi)

(***************************************************************************)
(* split_text: i is the 0-based loop index.                                *)
(***************************************************************************)
\* Mutant of SegmentSize: the segment size rounded up.
SegmentSizeCeil(words, n) == 0 - FloorDiv(0 - Len(words), n)

SegmentSize(words, n) == FloorDiv(Len(words), n)

\* Mutant of SegStart: a segment size of 0 taken to be 1.
SegStartAtLeastOne(i, size) == i * Max(size, 1)

SegStart(i, size) == i * size

\* Mutant of SegEnd: the last segment cut like the others.
SegEndNoRemainder(i, n, size) == <<(i + 1) * size>>

SegEnd(i, n, size) == IF i = n - 1 THEN <<>> ELSE <<(i + 1) * size>>

split_text(t, n) ==
    LET words == Split(t)
        size  == SegmentSize(words, n)
    IN  [k \in 1..n |-> PySlice(words, SegStart(k - 1, size), SegEnd(k - 1, n, size))]

(***************************************************************************)
(* Counter: c[w] += k, a new key going last.                               *)
(***************************************************************************)
CounterAdd(c, w, k) ==
    IF \E j \in 1..Len(c) : c[j][1] = w
    THEN [j \in 1..Len(c) |-> IF c[j][1] = w THEN <<w, c[j][2] + k>> ELSE c[j]]
    ELSE Append(c, <<w, k>>)

RECURSIVE CounterFrom(_, _, _)
CounterFrom(c, seg, i) ==
    IF i > Len(seg) THEN c ELSE CounterFrom(CounterAdd(c, seg[i], 1), seg, i + 1)

CounterOf(seg) == CounterFrom(<<>>, seg, 1)

RECURSIVE CounterUpdateFrom(_, _, _)
CounterUpdateFrom(c, d, i) ==
    IF i > Len(d) THEN c
    ELSE CounterUpdateFrom(CounterAdd(c, d[i][1], d[i][2]), d, i + 1)

\* Mutant of CounterUpdate: dict.update, which overwrites a key's count.
RECURSIVE DictUpdateFrom(_, _, _)
DictUpdateFrom(c, d, i) ==
    IF i > Len(d) THEN c
    ELSE DictUpdateFrom(
             IF \E j \in 1..Len(c) : c[j][1] = d[i][1]
             THEN [j \in 1..Len(c) |-> IF c[j][1] = d[i][1] THEN d[i] ELSE c[j]]
             ELSE Append(c, d[i]),
             d, i + 1)

DictUpdate(c, d) == DictUpdateFrom(c, d, 1)

CounterUpdate(c, d) == CounterUpdateFrom(c, d, 1)

\* result_dict[index] = counter
DictSet(d, index, counter) ==
    IF \E j \in 1..Len(d) : d[j][1] = index
    THEN [j \in 1..Len(d) |-> IF d[j][1] = index THEN <<index, counter>> ELSE d[j]]
    ELSE Append(d, <<index, counter>>)

\* for counter in result_dict.values(): final_count.update(counter)
RECURSIVE MergeFrom(_, _, _)
MergeFrom(c, d, i) ==
    IF i > Len(d) THEN c ELSE MergeFrom(CounterUpdate(c, d[i][2]), d, i + 1)

MergeAll(d) == MergeFrom(<<>>, d, 1)

(***************************************************************************)
(* sorted(final_count.items(), key=lambda x: (-x[1], x[0])): a stable sort *)
(* by the tuple (-count, word), str compared code point by code point.     *)
(***************************************************************************)
\* Mutant of LexLess: a shorter word first, whatever its letters.
RECURSIVE ShortLexLess(_, _)
ShortLexLess(u, v) ==
    IF Len(u) # Len(v) THEN Len(u) < Len(v)
    ELSE IF u = <<>> THEN FALSE
    ELSE IF Head(u) # Head(v) THEN Head(u) < Head(v)
    ELSE ShortLexLess(Tail(u), Tail(v))

RECURSIVE LexLess(_, _)
LexLess(u, v) ==
    IF v = <<>> THEN FALSE
    ELSE IF u = <<>> THEN TRUE
    ELSE IF Head(u) # Head(v) THEN Head(u) < Head(v)
    ELSE LexLess(Tail(u), Tail(v))

\* Mutant of KeyLess: the key is -count alone, without the word.
KeyLessCountOnly(a, b) == (0 - a[2]) < (0 - b[2])

KeyLess(a, b) ==
    \/ (0 - a[2]) < (0 - b[2])
    \/ (0 - a[2]) = (0 - b[2]) /\ LexLess(a[1], b[1])

RECURSIVE InsertSorted(_, _)
InsertSorted(s, x) ==
    IF s = <<>> THEN <<x>>
    ELSE IF KeyLess(x, Head(s)) THEN <<x>> \o s
    ELSE <<Head(s)>> \o InsertSorted(Tail(s), x)

RECURSIVE SortFrom(_, _, _)
SortFrom(acc, items, i) ==
    IF i > Len(items) THEN acc ELSE SortFrom(InsertSorted(acc, items[i]), items, i + 1)

Sorted(items) == SortFrom(<<>>, items, 1)

NoOutput == [header |-> FALSE, lines |-> <<>>]

----------------------------------------------------------------------------

\* main is entered: nothing is split, started or written yet.
Start ==
    /\ pc = "Idle"
    /\ segments = <<>>
    /\ wpc = <<>>
    /\ result_dict = <<>>
    /\ progress_list = <<>>
    /\ spawned = 0
    /\ obs_k = 0
    /\ obs_acc = 0
    /\ previous_done = 0
    /\ joined = 0
    /\ final_count = <<>>
    /\ ranked = <<>>
    /\ output = NoOutput

Init ==
    /\ text \in Texts
    /\ num_segments \in SegmentCounts
    /\ Start

\* main, lines 97-103: split_text returns, the shared structures are created.
SplitText ==
    /\ pc = "Idle"
    /\ num_segments # 0
    /\ segments' = split_text(text, num_segments)
    /\ progress_list' = [k \in 1..num_segments |-> 0]
    /\ wpc' = [k \in 1..num_segments |-> "unstarted"]
    /\ pc' = "Spawn"
    /\ UNCHANGED <<text, num_segments, result_dict, spawned, obs_k, obs_acc,
                   previous_done, joined, final_count, ranked, output>>

\* main, line 97: len(words) // 0 raises ZeroDivisionError, which nothing catches.
SplitTextRaises ==
    /\ pc = "Idle"
    /\ num_segments = 0
    /\ pc' = "Error"
    /\ UNCHANGED <<text, num_segments, segments, wpc, result_dict, progress_list,
                   spawned, obs_k, obs_acc, previous_done, joined, final_count,
                   ranked, output>>

\* main, lines 106-109: one Process per segment, started in index order.
StartProcess ==
    /\ pc = "Spawn"
    /\ spawned < Len(segments)
    /\ wpc' = [wpc EXCEPT ![spawned + 1] = "ready"]
    /\ spawned' = spawned + 1
    /\ UNCHANGED <<text, num_segments, pc, segments, result_dict, progress_list,
                   obs_k, obs_acc, previous_done, joined, final_count, ranked, output>>

\* main, line 112: the loop at 106 is exhausted, show_progress is entered.
EnterShowProgress ==
    /\ pc = "Spawn"
    /\ spawned = Len(segments)
    /\ pc' = "Observe"
    /\ obs_k' = 0
    /\ obs_acc' = 0
    /\ previous_done' = 0
    /\ UNCHANGED <<text, num_segments, segments, wpc, result_dict, progress_list,
                   spawned, joined, final_count, ranked, output>>

\* Mutant of FlagSet: the flag counts the sets.
FlagIncrement(pl, i) == [pl EXCEPT ![i] = @ + 1]

\* progress_list[index] = 1, for the 1-based i = index + 1.
FlagSet(pl, i) == [pl EXCEPT ![i] = 1]

\* Mutant of Publish: the table is stored under the 1-based index.
PublishOffByOne(i) ==
    /\ wpc[i] = "ready"
    /\ result_dict' = DictSet(result_dict, i, CounterOf(segments[i]))
    /\ wpc' = [wpc EXCEPT ![i] = "published"]
    /\ UNCHANGED <<text, num_segments, pc, segments, progress_list, spawned, obs_k,
                   obs_acc, previous_done, joined, final_count, ranked, output>>

\* count_words, lines 61-62, worker of segment i (1-based here, index i-1 there).
Publish(i) ==
    /\ wpc[i] = "ready"
    /\ result_dict' = DictSet(result_dict, i - 1, CounterOf(segments[i]))
    /\ wpc' = [wpc EXCEPT ![i] = "published"]
    /\ UNCHANGED <<text, num_segments, pc, segments, progress_list, spawned, obs_k,
                   obs_acc, previous_done, joined, final_count, ranked, output>>

\* Mutant of SetFlag: every worker sets the flag of segment 0.
SetFlagFirstSlot(i) ==
    /\ wpc[i] = "published"
    /\ progress_list' = FlagSet(progress_list, 1)
    /\ wpc' = [wpc EXCEPT ![i] = "flagged"]
    /\ UNCHANGED <<text, num_segments, pc, segments, result_dict, spawned, obs_k,
                   obs_acc, previous_done, joined, final_count, ranked, output>>

\* Mutant of SetFlag: the worker writes back a whole list of its own, in
\* which only its flag is set.
SetFlagWholeList(i) ==
    /\ wpc[i] = "published"
    /\ progress_list' = [k \in 1..Len(progress_list) |-> IF k = i THEN 1 ELSE 0]
    /\ wpc' = [wpc EXCEPT ![i] = "flagged"]
    /\ UNCHANGED <<text, num_segments, pc, segments, result_dict, spawned, obs_k,
                   obs_acc, previous_done, joined, final_count, ranked, output>>

\* Mutant of SetFlag: the flag is set without waiting for the table to be stored.
SetFlagEarly(i) ==
    /\ wpc[i] \in {"ready", "published"}
    /\ progress_list' = FlagSet(progress_list, i)
    /\ wpc' = [wpc EXCEPT ![i] = "flagged"]
    /\ UNCHANGED <<text, num_segments, pc, segments, result_dict, spawned, obs_k,
                   obs_acc, previous_done, joined, final_count, ranked, output>>

\* count_words, line 63.
SetFlag(i) ==
    /\ wpc[i] = "published"
    /\ progress_list' = FlagSet(progress_list, i)
    /\ wpc' = [wpc EXCEPT ![i] = "flagged"]
    /\ UNCHANGED <<text, num_segments, pc, segments, result_dict, spawned, obs_k,
                   obs_acc, previous_done, joined, final_count, ranked, output>>

\* count_words, line 64: the print, then the process exits.
PrintAndExit(i) ==
    /\ wpc[i] = "flagged"
    /\ wpc' = [wpc EXCEPT ![i] = "done"]
    /\ UNCHANGED <<text, num_segments, pc, segments, result_dict, progress_list,
                   spawned, obs_k, obs_acc, previous_done, joined, final_count,
                   ranked, output>>

\* A worker process terminates abnormally (a signal, or an exception that
\* count_words does not catch, such as print on a closed stdout), at any of
\* its statements.
WorkerCrash(i) ==
    /\ wpc[i] \in {"ready", "published", "flagged"}
    /\ wpc' = [wpc EXCEPT ![i] = "crashed"]
    /\ UNCHANGED <<text, num_segments, pc, segments, result_dict, progress_list,
                   spawned, obs_k, obs_acc, previous_done, joined, final_count,
                   ranked, output>>

\* show_progress, line 76: sum() reads the list proxy one item at a time.
ObserverRead ==
    /\ pc = "Observe"
    /\ obs_k < Len(progress_list)
    /\ obs_acc' = obs_acc + progress_list[obs_k + 1]
    /\ obs_k' = obs_k + 1
    /\ UNCHANGED <<text, num_segments, pc, segments, wpc, result_dict, progress_list,
                   spawned, previous_done, joined, final_count, ranked, output>>

\* Mutant of ObserverCheck: the loop ends on done_now > len(progress_list).
ObserverCheckNeverEnds ==
    /\ pc = "Observe"
    /\ obs_k = Len(progress_list)
    /\ IF obs_acc > Len(progress_list)
       THEN /\ pc' = "Join"
            /\ UNCHANGED previous_done
       ELSE /\ pc' = pc
            /\ previous_done' = IF obs_acc > previous_done THEN obs_acc ELSE previous_done
    /\ obs_k' = 0
    /\ obs_acc' = 0
    /\ UNCHANGED <<text, num_segments, segments, wpc, result_dict, progress_list,
                   spawned, joined, final_count, ranked, output>>

\* Mutant of ObserverCheck: the loop ends one flag short.
ObserverCheckEndsEarly ==
    /\ pc = "Observe"
    /\ obs_k = Len(progress_list)
    /\ IF obs_acc >= Len(progress_list) - 1
       THEN /\ pc' = "Join"
            /\ UNCHANGED previous_done
       ELSE /\ pc' = pc
            /\ previous_done' = IF obs_acc > previous_done THEN obs_acc ELSE previous_done
    /\ obs_k' = 0
    /\ obs_acc' = 0
    /\ UNCHANGED <<text, num_segments, segments, wpc, result_dict, progress_list,
                   spawned, joined, final_count, ranked, output>>

\* show_progress, lines 76-85: sum() has returned done_now = obs_acc.
ObserverCheck ==
    /\ pc = "Observe"
    /\ obs_k = Len(progress_list)
    /\ IF obs_acc = Len(progress_list)
       THEN /\ pc' = "Join"
            /\ UNCHANGED previous_done
       ELSE /\ pc' = pc
            /\ previous_done' = IF obs_acc > previous_done THEN obs_acc ELSE previous_done
    /\ obs_k' = 0
    /\ obs_acc' = 0
    /\ UNCHANGED <<text, num_segments, segments, wpc, result_dict, progress_list,
                   spawned, joined, final_count, ranked, output>>

\* Mutant of JoinProcess: join returns whether or not the process has ended.
JoinNoWait ==
    /\ pc = "Join"
    /\ joined < Len(wpc)
    /\ joined' = joined + 1
    /\ UNCHANGED <<text, num_segments, pc, segments, wpc, result_dict, progress_list,
                   spawned, obs_k, obs_acc, previous_done, final_count, ranked, output>>

\* main, lines 115-116: p.join() returns once the process has terminated.
JoinProcess ==
    /\ pc = "Join"
    /\ joined < Len(wpc)
    /\ wpc[joined + 1] \in {"done", "crashed"}
    /\ joined' = joined + 1
    /\ UNCHANGED <<text, num_segments, pc, segments, wpc, result_dict, progress_list,
                   spawned, obs_k, obs_acc, previous_done, final_count, ranked, output>>

\* Mutant of Merge: the merge does not wait for the join loop to end.
MergeEarly ==
    /\ pc = "Join"
    /\ final_count' = MergeAll(result_dict)
    /\ pc' = "Merged"
    /\ UNCHANGED <<text, num_segments, segments, wpc, result_dict, progress_list,
                   spawned, obs_k, obs_acc, previous_done, joined, ranked, output>>

\* main, lines 119-121.
Merge ==
    /\ pc = "Join"
    /\ joined = Len(wpc)
    /\ final_count' = MergeAll(result_dict)
    /\ pc' = "Merged"
    /\ UNCHANGED <<text, num_segments, segments, wpc, result_dict, progress_list,
                   spawned, obs_k, obs_acc, previous_done, joined, ranked, output>>

\* main, lines 124-126: output.txt is opened, the header goes to the file
\* object's buffer, sorted() returns the ranking.
Rank ==
    /\ pc = "Merged"
    /\ ranked' = Sorted(final_count)
    /\ pc' = "Ranked"
    /\ UNCHANGED <<text, num_segments, segments, wpc, result_dict, progress_list,
                   spawned, obs_k, obs_acc, previous_done, joined, final_count, output>>

\* main, lines 126-127: the lines are written and the with block closes the
\* file, which puts header and lines on disk.
WriteOutput ==
    /\ pc = "Ranked"
    /\ output' = [header |-> TRUE, lines |-> ranked]
    /\ pc' = "Done"
    /\ UNCHANGED <<text, num_segments, segments, wpc, result_dict, progress_list,
                   spawned, obs_k, obs_acc, previous_done, joined, final_count, ranked>>

Worker(i) == Publish(i) \/ SetFlag(i) \/ PrintAndExit(i)

Next ==
    \/ SplitText
    \/ SplitTextRaises
    \/ StartProcess
    \/ EnterShowProgress
    \/ \E i \in 1..Len(wpc) : Publish(i)
    \/ \E i \in 1..Len(wpc) : SetFlag(i)
    \/ \E i \in 1..Len(wpc) : PrintAndExit(i)
    \/ \E i \in 1..Len(wpc) : WorkerCrash(i)
    \/ ObserverRead
    \/ ObserverCheck
    \/ JoinProcess
    \/ Merge
    \/ Rank
    \/ WriteOutput

Spec == Init /\ [][Next]_vars

\* split_text alone, on longer texts and more segments.
InitSplit ==
    /\ text \in SplitTexts
    /\ num_segments \in SplitSegmentCounts
    /\ Start

NextSplit ==
    \/ SplitText
    \/ SplitTextRaises

SplitSpec == InitSplit /\ [][NextSplit]_vars

\* The scheduler runs every process that can take a step: the coordinator and
\* each started worker make progress; a crash is never forced.
Coordinator ==
    \/ SplitText
    \/ SplitTextRaises
    \/ StartProcess
    \/ EnterShowProgress
    \/ ObserverRead
    \/ ObserverCheck
    \/ JoinProcess
    \/ Merge
    \/ Rank
    \/ WriteOutput

WorkerStep(i) == i \in 1..Len(wpc) /\ Worker(i)

InitFair ==
    /\ text \in FairTexts
    /\ num_segments \in SegmentCounts
    /\ Start

FairSpec ==
    /\ InitFair
    /\ [][Next]_vars
    /\ WF_vars(Coordinator)
    /\ \A i \in 1..MaxN : WF_vars(WorkerStep(i))

----------------------------------------------------------------------------
(***************************************************************************)
(* What the claims speak of.                                               *)
(***************************************************************************)
Words == Split(text)

Partitioned == pc \notin {"Idle", "Error"}

RECURSIVE Flatten(_)
Flatten(ss) == IF ss = <<>> THEN <<>> ELSE Head(ss) \o Flatten(Tail(ss))

RECURSIVE SumLen(_)
SumLen(ss) == IF ss = <<>> THEN 0 ELSE Len(Head(ss)) + SumLen(Tail(ss))

\* Occurrences of word t in the sequence of words seg.
Occ(seg, t) == Cardinality({j \in 1..Len(seg) : seg[j] = t})

RECURSIVE SumOcc(_, _)
SumOcc(ss, t) == IF ss = <<>> THEN 0 ELSE Occ(Head(ss), t) + SumOcc(Tail(ss), t)

\* The count a Counter holds for t, and the sum of its counts.
CountIn(c, t) ==
    IF \E j \in 1..Len(c) : c[j][1] = t
    THEN (CHOOSE x \in {c[j] : j \in 1..Len(c)} : x[1] = t)[2]
    ELSE 0

RECURSIVE SumCounts(_)
SumCounts(c) == IF c = <<>> THEN 0 ELSE Head(c)[2] + SumCounts(Tail(c))

WordSet(seq) == {seq[j] : j \in 1..Len(seq)}

AnyCrashed == \E i \in 1..Len(wpc) : wpc[i] = "crashed"

\* C1: for N > 0, once split_text has returned, the N segments concatenated in
\* index order are exactly the tokenized text, and their lengths add up to the
\* number of tokens.
C1_PartitionCoverage ==
    (Partitioned /\ num_segments > 0) =>
        /\ Len(segments) = num_segments
        /\ Flatten(segments) = Words
        /\ SumLen(segments) = Len(Words)

C1_Witness ==
    /\ Partitioned
    /\ num_segments = 2
    /\ Len(Words) = 3
    /\ Len(segments[1]) = 1
    /\ Len(segments[2]) = 2

\* C2: for N > 0, once the merge is done, the merged count of every token is
\* the sum of its occurrences in the segments, and the merged counts add up to
\* the number of tokens.
C2_CountConservation ==
    (pc \in {"Merged", "Ranked", "Done"} /\ num_segments > 0) =>
        /\ \A t \in WordSet(Words) \cup {c[1] : c \in WordSet(final_count)} :
               CountIn(final_count, t) = SumOcc(segments, t)
        /\ SumCounts(final_count) = Len(Words)

C2_Witness ==
    /\ pc = "Merged"
    /\ num_segments = 2
    /\ \E t \in WordSet(Words) : Occ(segments[1], t) > 0 /\ Occ(segments[2], t) > 0
    /\ Len(final_count) = 2

\* The result collection had the workers published in index order.
InIndexOrder == [k \in 1..Len(segments) |-> <<k - 1, CounterOf(segments[k])>>]

\* C3: the ranking and the file written are those of the run whose workers
\* publish in index order, whatever order the tables were inserted in.
C3_OrderIndependent ==
    /\ pc \in {"Ranked", "Done"} => ranked = Sorted(MergeAll(InIndexOrder))
    /\ pc = "Done" => output = [header |-> TRUE, lines |-> Sorted(MergeAll(InIndexOrder))]

C3_Witness ==
    /\ pc = "Done"
    /\ num_segments = 2
    /\ result_dict # InIndexOrder
    /\ final_count # MergeAll(InIndexOrder)
    /\ Len(output.lines) = 2
    /\ output.lines[1][2] = output.lines[2][2]

\* Every distinct token of the input is on exactly one line, with its count
\* in the whole input.
CompleteRanking(lines) ==
    /\ \A t \in WordSet(Words) :
           Cardinality({j \in 1..Len(lines) : lines[j][1] = t}) = 1
    /\ \A j \in 1..Len(lines) :
           lines[j][1] \in WordSet(Words) /\ lines[j][2] = Occ(Words, lines[j][1])

\* C4: whenever output.txt holds anything, it holds the complete ranking:
\* every distinct token of the input once, with its full count.
C4_AllOrNothing == output # NoOutput => CompleteRanking(output.lines)

\* C5: once a worker has terminated abnormally, the pipeline is never in
\* Merged, Ranked or Done, and output.txt holds nothing.
C5_WorkerFailureIsFatal ==
    AnyCrashed => pc \notin {"Merged", "Ranked", "Done"} /\ output = NoOutput

\* C6: a worker that has terminated abnormally while the coordinator is in
\* show_progress or in the joins leads to the coordinator ending in failure.
C6_FailureReachesFailed ==
    (AnyCrashed /\ pc \in {"Observe", "Join"}) ~> (pc = "Error")

\* C7: for N <= 0 the run fails before any process is started and output.txt
\* holds nothing, not even the header.
C7_NonPositiveRejected ==
    (num_segments <= 0 /\ pc # "Idle") =>
        /\ pc = "Error"
        /\ spawned = 0
        /\ output = NoOutput

\* Code point by code point: u is a proper prefix of v, or the first letter
\* in which they differ is smaller in u.
StrLess(u, v) ==
    \E k \in 1..(Len(v)) :
        /\ \A j \in 1..(k - 1) : j <= Len(u) /\ u[j] = v[j]
        /\ k > Len(u) \/ (k <= Len(u) /\ u[k] < v[k])

\* C8: the lines written are in descending count, equal counts in ascending
\* word order, no two lines compare equal, and each distinct token of the
\* input is on exactly one line.
C8_RankingOrder ==
    pc = "Done" =>
        /\ \A i, j \in 1..Len(output.lines) :
               i < j =>
                   \/ output.lines[i][2] > output.lines[j][2]
                   \/ /\ output.lines[i][2] = output.lines[j][2]
                      /\ StrLess(output.lines[i][1], output.lines[j][1])
        /\ \A i, j \in 1..Len(output.lines) :
               output.lines[i][1] = output.lines[j][1] => i = j
        /\ num_segments > 0 =>
               /\ \A t \in WordSet(Words) :
                      Cardinality({j \in 1..Len(output.lines) : output.lines[j][1] = t}) = 1
               /\ Len(output.lines) = Cardinality(WordSet(Words))

\* Two words with the same count, the longer one first: "12" before "2".
C8_Witness ==
    /\ pc = "Done"
    /\ Len(output.lines) = 2
    /\ output.lines[1][2] = output.lines[2][2]
    /\ Len(output.lines[1][1]) = 2
    /\ Len(output.lines[2][1]) = 1

\* C9: for N > 0 and base = floor(tokens / N), segment i < N-1 is
\* tokens[i*base : (i+1)*base] and segment N-1 is tokens[(N-1)*base : end],
\* of length base + (tokens mod N).
C9_SegmentBounds ==
    (Partitioned /\ num_segments > 0) =>
        LET base == Len(Words) \div num_segments IN
        /\ Len(segments) = num_segments
        /\ \A k \in 1..(num_segments - 1) :
               segments[k] = SubSeq(Words, (k - 1) * base + 1, k * base)
        /\ segments[num_segments] =
               SubSeq(Words, (num_segments - 1) * base + 1, Len(Words))
        /\ Len(segments[num_segments]) = base + (Len(Words) % num_segments)

\* 5 tokens, N = 3: segments of 1, 1 and 3 tokens.
C9_Witness ==
    /\ Partitioned
    /\ num_segments = 3
    /\ Len(Words) = 5
    /\ segments[1] = <<Words[1]>>
    /\ segments[2] = <<Words[2]>>
    /\ segments[3] = <<Words[3], Words[4], Words[5]>>

\* The items of the result collection whose table is not empty.
RECURSIVE NonEmptyTables(_)
NonEmptyTables(d) ==
    IF d = <<>> THEN <<>>
    ELSE IF Head(d)[2] = <<>> THEN NonEmptyTables(Tail(d))
    ELSE <<Head(d)>> \o NonEmptyTables(Tail(d))

EmptySegmentsHarmless ==
    /\ \A j \in 1..Len(result_dict) :
           segments[result_dict[j][1] + 1] = <<>> => result_dict[j][2] = <<>>
    /\ pc \in {"Merged", "Ranked", "Done"} =>
           final_count = MergeAll(NonEmptyTables(result_dict))
    /\ pc # "Error"

\* C10 as stated: with N greater than the token count, the empty segments are
\* the ones with the highest indices, an empty segment's table is empty and
\* adds nothing to the merge, and no error is raised.
C10_TrailingSegmentsEmpty ==
    (Partitioned /\ num_segments > Len(Words)) =>
        /\ \A i, j \in 1..Len(segments) :
               (i < j /\ segments[i] = <<>>) => segments[j] = <<>>
        /\ EmptySegmentsHarmless

\* C10 amended: with N greater than the token count, the segments 0..N-2 are
\* empty and segment N-1 holds every token; an empty segment's table is empty
\* and adds nothing to the merge, and no error is raised.
C10_LeadingSegmentsEmpty ==
    (Partitioned /\ num_segments > Len(Words)) =>
        /\ \A k \in 1..(num_segments - 1) : segments[k] = <<>>
        /\ segments[num_segments] = Words
        /\ EmptySegmentsHarmless

C10_Witness ==
    /\ pc = "Done"
    /\ num_segments = 2
    /\ Len(Words) = 1
    /\ segments = <<<<>>, Words>>
    /\ \E j \in 1..Len(result_dict) : result_dict[j] = <<0, <<>>>>
    /\ output.lines = <<<<Words[1], 1>>>>

\* The indices under which the result collection holds a table.
ResultIndices == {result_dict[j][1] : j \in 1..Len(result_dict)}

\* sum(progress_list) of the list as it is now.
RECURSIVE SumFlags(_)
SumFlags(pl) == IF pl = <<>> THEN 0 ELSE Head(pl) + SumFlags(Tail(pl))

\* C11: one worker per segment and at most one table per index 0..N-1, none
\* under another index; from the end of show_progress on, so when the merge
\* starts, there is exactly one table for each index, the one of its segment.
C11_OneTablePerSegment ==
    /\ Len(wpc) = Len(segments)
    /\ \A j, k \in 1..Len(result_dict) : result_dict[j][1] = result_dict[k][1] => j = k
    /\ ResultIndices \subseteq 0..(num_segments - 1)
    /\ \A j \in 1..Len(result_dict) :
           result_dict[j][2] = CounterOf(segments[result_dict[j][1] + 1])
    /\ pc \in {"Join", "Merged", "Ranked", "Done"} =>
           /\ ResultIndices = 0..(num_segments - 1)
           /\ Len(result_dict) = Len(segments)

\* The merge is about to start with the tables inserted in the order 1, 0.
C11_Witness ==
    /\ pc = "Join"
    /\ joined = 2
    /\ num_segments = 2
    /\ Len(result_dict) = 2
    /\ result_dict[1][1] = 1
    /\ result_dict[2][1] = 0

\* A step changes flag i only from 0 to 1, and only as the step of worker i
\* at line 63; a new list holds only zeros.
FlagStep ==
    /\ \A i \in 1..Len(progress_list') :
           IF i \in 1..Len(progress_list)
           THEN progress_list'[i] # progress_list[i] =>
                    /\ progress_list[i] = 0
                    /\ progress_list'[i] = 1
                    /\ wpc[i] = "published"
                    /\ wpc'[i] = "flagged"
           ELSE progress_list'[i] = 0
    /\ Len(progress_list) > 0 => Len(progress_list') = Len(progress_list)
    /\ (pc' # pc \/ obs_k' # obs_k \/ obs_acc' # obs_acc \/ joined' # joined
        \/ spawned' # spawned) => (pc = "Idle" \/ progress_list' = progress_list)

\* C12: each flag starts at 0, goes from 0 to 1 once, in the step of its own
\* worker, and is never reset; no step of the coordinator or of show_progress
\* writes a flag.  A worker that has passed line 63 has its flag set, one
\* that has not reached it has not.
C12_FlagsSetOnceByOwner ==
    /\ [](\A i \in 1..Len(wpc) :
             /\ progress_list[i] \in {0, 1}
             /\ wpc[i] \in {"flagged", "done"} => progress_list[i] = 1
             /\ wpc[i] \in {"unstarted", "ready", "published"} => progress_list[i] = 0)
    /\ [][FlagStep]_vars

\* Worker 1 has set flag 1 while flag 0 is still 0.
C12_Witness ==
    /\ num_segments = 2
    /\ progress_list = <<0, 1>>
    /\ wpc[1] = "published"
    /\ wpc[2] = "flagged"

\* Every worker has returned from line 63.
AllSet == \A i \in 1..Len(wpc) : wpc[i] \in {"flagged", "done"}

\* C13: once the N workers have each set their flag, in whatever order, the
\* list sums to N, and every read show_progress makes from then on reads 1, so
\* that a snapshot taken from then on is N.
C13_NoLostUpdate ==
    /\ []((Partitioned /\ num_segments > 0 /\ AllSet) =>
             SumFlags(progress_list) = num_segments)
    /\ [][(AllSet /\ obs_k' = obs_k + 1) => obs_acc' = obs_acc + 1]_vars

\* Both workers have set their flags, worker 1 first, and show_progress has
\* read the whole list since.
C13_Witness ==
    /\ num_segments = 2
    /\ AllSet
    /\ pc = "Observe"
    /\ obs_k = 2
    /\ obs_acc = 2
    /\ result_dict[1][1] = 1

\* C14: setting flag i again leaves the list, and so its sum, as the first set
\* of flag i left them.
C14_SetIdempotent ==
    \A i \in 1..Len(progress_list) :
        /\ FlagSet(FlagSet(progress_list, i), i) = FlagSet(progress_list, i)
        /\ SumFlags(FlagSet(FlagSet(progress_list, i), i))
               = SumFlags(FlagSet(progress_list, i))
        /\ progress_list[i] = 1 =>
               /\ FlagSet(progress_list, i) = progress_list
               /\ SumFlags(FlagSet(progress_list, i)) = SumFlags(progress_list)

\* Flag 0 has been set by its worker; the other flag has not.
C14_Witness ==
    /\ num_segments = 2
    /\ progress_list = <<1, 0>>
    /\ wpc[1] = "flagged"
    /\ SumFlags(FlagSet(progress_list, 1)) = 1

\* The states of the pipeline, numbered in their order: Idle, Partitioned (the
\* start loop), Dispatched (show_progress and the joins), AllWorkersJoined,
\* Merged, Ranked, Done.
Stage ==
    CASE pc = "Idle" -> 0
      [] pc = "Spawn" -> 1
      [] pc = "Observe" -> 2
      [] pc = "Join" -> IF joined = Len(wpc) THEN 3 ELSE 2
      [] pc = "Merged" -> 4
      [] pc = "Ranked" -> 5
      [] pc = "Done" -> 6
      [] OTHER -> 0 - 1

Terminated(i) == wpc[i] \in {"done", "crashed"}

AllTerminated == \A i \in 1..Len(wpc) : Terminated(i)

\* C15: a step keeps the pipeline in its state or moves it to the next one
\* (or to the failure of an uncaught exception), and nothing is merged, ranked
\* or written while a worker is not joined.
C15_StagesInOrder ==
    /\ []((final_count # <<>> \/ ranked # <<>> \/ output # NoOutput
           \/ pc \in {"Merged", "Ranked", "Done"}) =>
             /\ pc \in {"Merged", "Ranked", "Done"}
             /\ joined = Len(wpc)
             /\ spawned = Len(segments))
    /\ [][IF pc = "Error" \/ pc' = "Error"
          THEN pc' = "Error" /\ pc \in {"Idle", "Error"}
          ELSE Stage' = Stage \/ Stage' = Stage + 1]_vars

\* Two workers joined and their tables merged.
C15_Witness ==
    /\ pc = "Merged"
    /\ num_segments = 2
    /\ joined = 2
    /\ Len(final_count) = 2

\* C16: a flag that is set has the table of its segment in the result
\* collection.
C16_PublishBeforeFlag ==
    \A i \in 1..Len(progress_list) :
        progress_list[i] = 1 =>
            \E j \in 1..Len(result_dict) :
                result_dict[j] = <<i - 1, CounterOf(segments[i])>>

\* Worker 1 has stored its table and set its flag; worker 0 has stored its
\* table and not yet set its flag.
C16_Witness ==
    /\ num_segments = 2
    /\ progress_list = <<0, 1>>
    /\ wpc[1] = "published"
    /\ Len(result_dict) = 2
    /\ pc = "Observe"

\* C17: the merge is reached only with every worker terminated and joined,
\* and a join returns only for a terminated worker, whatever the flags say.
C17_JoinIsAuthoritative ==
    /\ pc \in {"Merged", "Ranked", "Done"} => joined = Len(wpc) /\ AllTerminated
    /\ \A i \in 1..Len(wpc) : i <= joined => Terminated(i)
    /\ joined > 0 => pc \in {"Join", "Merged", "Ranked", "Done"}

\* Every flag is set, no worker has terminated yet, and main is held in the
\* first join.
C17_Witness ==
    /\ pc = "Join"
    /\ num_segments = 2
    /\ joined = 0
    /\ progress_list = <<1, 1>>
    /\ \A i \in 1..Len(wpc) : wpc[i] = "flagged"

\* C18: a worker at any of its statements can take its step, whatever the
\* flags and the other workers are; and the coordinator waits for the workers
\* to terminate only, so that once they all have it leaves show_progress.
C18_OnlyJoinBlocks ==
    /\ [](\A i \in 1..Len(wpc) :
             wpc[i] \in {"ready", "published", "flagged"} => ENABLED Worker(i))
    /\ (AllTerminated /\ pc = "Observe") ~> (pc # "Observe")

\* C19: for N > 0, under fair scheduling, the run reaches Done unless a worker
\* terminates abnormally; and a run that is Done without such a failure has
\* every worker exited, every table stored, every flag set and the file
\* written.
C19_Terminates ==
    /\ (num_segments > 0) => <>(pc = "Done" \/ AnyCrashed)
    /\ []((pc = "Done" /\ num_segments > 0 /\ ~AnyCrashed) =>
             /\ \A i \in 1..Len(wpc) : wpc[i] = "done" /\ progress_list[i] = 1
             /\ Len(result_dict) = num_segments
             /\ joined = num_segments
             /\ output.header)

C19_Witness ==
    /\ pc = "Done"
    /\ num_segments = 2
    /\ ~AnyCrashed
    /\ output.header
    /\ Len(output.lines) = 2

\* C20: the partial sum of sum() is at most the number of flags set among the
\* ones read, so a snapshot is at most the number of flags set when its read
\* ends; a snapshot is at least every earlier one; and show_progress has
\* returned only with every flag set and every table stored.
C20_SnapshotSound ==
    /\ pc = "Observe" =>
           /\ obs_k <= Len(progress_list)
           /\ obs_acc <= SumFlags(SubSeq(progress_list, 1, obs_k))
           /\ obs_acc <= SumFlags(progress_list)
           /\ previous_done <= SumFlags(progress_list)
           /\ obs_k = Len(progress_list) => obs_acc >= previous_done
    /\ pc \in {"Join", "Merged", "Ranked", "Done"} =>
           /\ \A i \in 1..Len(progress_list) : progress_list[i] = 1
           /\ ResultIndices = 0..(num_segments - 1)

\* sum() read flag 0 as 0 before its worker set it and flag 1 as 1: the
\* snapshot is 1 while both flags are set.
C20_Witness ==
    /\ pc = "Observe"
    /\ num_segments = 2
    /\ obs_k = 2
    /\ obs_acc = 1
    /\ progress_list = <<1, 1>>

====
